---------------------------- MODULE Spec2Model ----------------------------
(***************************************************************************)
(* HamLib utility functions (hamlib/qiskit/hamlib_utils.py): the           *)
(* Hamiltonian text normaliser and parser, the qubit counter, and the      *)
(* variable-range extractor.                                               *)
(*                                                                         *)
(* Text is a sequence of one-character strings: <<"(", "1", ")">> is the   *)
(* Python string "(1)".  A position p in a text t is the number of         *)
(* characters before it, 0..Len(t).                                        *)
(***************************************************************************)
EXTENDS Integers, Sequences, FiniteSets, TLC

VARIABLES pc, data, terms, file_input, store, set_order, result

vars == <<pc, data, terms, file_input, store, set_order, result>>

None == "None"

(***************************************************************************)
(* Characters.  The model's texts are written over AllChars; the classes   *)
(* below are the regular-expression classes of the source restricted to it.*)
(***************************************************************************)
Digits == {"0", "1", "2", "3", "4", "5", "6", "7", "8", "9"}

Whitespace == {" ", "\n", "\t"}

AllChars ==
  Digits \cup Whitespace \cup
  {"(", ")", "[", "]", "+", "-", ".", "_", ":", "=", "j", "e", "a", "b", "c",
   "d", "g", "h", "i", "n", "p", "r", "s", "z", "x", "D", "I", "X", "Y", "Z"}

\* \S
NonSpace == AllChars \ Whitespace

\* . (without DOTALL)
NotNewline == AllChars \ {"\n"}

\* ord(c): Python compares strings by code point
Ord(c) ==
  CASE c = "\t" -> 9   [] c = "\n" -> 10  [] c = " " -> 32
    [] c = "(" -> 40   [] c = ")" -> 41   [] c = "+" -> 43
    [] c = "-" -> 45   [] c = "." -> 46
    [] c = "0" -> 48   [] c = "1" -> 49   [] c = "2" -> 50
    [] c = "3" -> 51   [] c = "4" -> 52   [] c = "5" -> 53
    [] c = "6" -> 54   [] c = "7" -> 55   [] c = "8" -> 56
    [] c = "9" -> 57   [] c = ":" -> 58   [] c = "=" -> 61
    [] c = "D" -> 68   [] c = "I" -> 73   [] c = "X" -> 88
    [] c = "Y" -> 89   [] c = "Z" -> 90   [] c = "[" -> 91
    [] c = "]" -> 93   [] c = "_" -> 95   [] c = "a" -> 97
    [] c = "b" -> 98   [] c = "c" -> 99   [] c = "d" -> 100
    [] c = "e" -> 101  [] c = "g" -> 103  [] c = "h" -> 104
    [] c = "i" -> 105  [] c = "j" -> 106  [] c = "n" -> 110
    [] c = "p" -> 112  [] c = "r" -> 114  [] c = "s" -> 115
    [] c = "x" -> 120  [] c = "z" -> 122

\* int(c) for one decimal digit
DigitValue(c) == Ord(c) - 48

(***************************************************************************)
(* Python string methods.                                                  *)
(***************************************************************************)
\* the position after the longest run of characters of S that starts at p
RECURSIVE RunEnd(_, _, _)
RunEnd(t, p, S) ==
  IF p < Len(t) /\ t[p + 1] \in S THEN RunEnd(t, p + 1, S) ELSE p

\* the start of the longest run of characters of S that ends at p
RECURSIVE RunStart(_, _, _)
RunStart(t, p, S) ==
  IF p > 0 /\ t[p] \in S THEN RunStart(t, p - 1, S) ELSE p

\* t[a:b]
Slice(t, a, b) == SubSeq(t, a + 1, b)

\* t.find(c, p): the position of the first c at or after p, -1 when none
RECURSIVE Find(_, _, _)
Find(t, c, p) ==
  IF p >= Len(t) THEN -1
  ELSE IF t[p + 1] = c THEN p
  ELSE Find(t, c, p + 1)

\* t.strip()
Strip(t) ==
  LET a == RunEnd(t, 0, Whitespace)
      b == RunStart(t, Len(t), Whitespace)
  IN  IF a >= b THEN <<>> ELSE Slice(t, a, b)

\* t.split(c): the pieces between the occurrences of c, empty pieces kept
RECURSIVE SplitOn(_, _)
SplitOn(t, c) ==
  LET i == Find(t, c, 0)
  IN  IF i = -1 THEN <<t>>
      ELSE <<Slice(t, 0, i)>> \o SplitOn(Slice(t, i + 1, Len(t)), c)

\* t.split(): the maximal runs of non-whitespace characters
RECURSIVE SplitWhitespace(_)
SplitWhitespace(t) ==
  LET a == RunEnd(t, 0, Whitespace)
      b == RunEnd(t, a, NonSpace)
  IN  IF a = Len(t) THEN <<>>
      ELSE <<Slice(t, a, b)>> \o SplitWhitespace(Slice(t, b, Len(t)))

\* sep.join(parts)
RECURSIVE Join(_, _)
Join(parts, sep) ==
  IF parts = <<>> THEN <<>>
  ELSE IF Len(parts) = 1 THEN parts[1]
  ELSE parts[1] \o sep \o Join(Tail(parts), sep)

(***************************************************************************)
(* Regular expressions as position sets: each operator maps the set P of   *)
(* positions where the pattern so far can end to the set where the         *)
(* pattern extended by one element can end.                                *)
(***************************************************************************)
\* one character of S
One(t, P, S) == {p + 1 : p \in {q \in P : q < Len(t) /\ t[q + 1] \in S}}

\* S*
Star(t, P, S) == UNION {p .. RunEnd(t, p, S) : p \in P}

\* S+
Plus(t, P, S) == Star(t, One(t, P, S), S)

\* S?
Opt(t, P, S) == P \cup One(t, P, S)

(***************************************************************************)
(* needs_normalization: re.search of                                       *)
(*   \(\s*-?\d+(\.\d+)?(\+|\-)?\d*?j?\s*\)\s*\[.*?\]                       *)
(***************************************************************************)
CanonicalEnds(t) ==
  LET p1  == One(t, 0 .. Len(t), {"("})
      p2  == Star(t, p1, Whitespace)
      p3  == Opt(t, p2, {"-"})
      p4  == Plus(t, p3, Digits)
      p5  == p4 \cup Plus(t, One(t, p4, {"."}), Digits)
      p6  == Opt(t, p5, {"+", "-"})
      p7  == Star(t, p6, Digits)
      p8  == Opt(t, p7, {"j"})
      p9  == Star(t, p8, Whitespace)
      p10 == One(t, p9, {")"})
      p11 == Star(t, p10, Whitespace)
      p12 == One(t, p11, {"["})
      p13 == Star(t, p12, NotNewline)
  IN  One(t, p13, {"]"})

needs_normalization(t) == IF CanonicalEnds(t) # {} THEN "No" ELSE "Yes"

(***************************************************************************)
(* \s*\[(.*?)\] from position p: whitespace, "[", then the shortest run    *)
(* without a newline that a "]" follows.  The result is <<open, close>>,   *)
(* the positions of "[" and "]", or <<>> when there is no match.           *)
(***************************************************************************)
Bracket(t, p) ==
  LET open  == RunEnd(t, p, Whitespace)
      close == Find(t, "]", open + 1)
  IN  IF /\ open < Len(t)
         /\ t[open + 1] = "["
         /\ close # -1
         /\ RunEnd(t, open + 1, NotNewline) >= close
      THEN <<open, close>>
      ELSE <<>>

(***************************************************************************)
(* normalize_data_format                                                   *)
(***************************************************************************)
\* re.match(r'(\S+)\s*\[(.*?)\]', term): the greedy \S+ gives back
\* characters until the rest matches; <<coeff, ops>> or <<>>
MatchLooseTerm(term) ==
  LET ks == {k \in 1 .. RunEnd(term, 0, NonSpace) : Bracket(term, k) # <<>>}
  IN  IF ks = {} THEN <<>>
      ELSE LET k == CHOOSE x \in ks : \A y \in ks : y <= x
               b == Bracket(term, k)
           IN  <<Slice(term, 0, k), Slice(term, b[1] + 1, b[2])>>

\* the loop body: the normalised terms of the '+'-separated pieces
RECURSIVE NormalizeTerms(_)
NormalizeTerms(pieces) ==
  IF pieces = <<>> THEN <<>>
  ELSE LET term == Strip(Head(pieces))
           m    == MatchLooseTerm(term)
           rest == NormalizeTerms(Tail(pieces))
       IN  IF term # <<>> /\ m # <<>>
           THEN <<(<<"(">> \o m[1] \o <<")", " ", "[">> \o Strip(m[2]) \o <<"]">>)>>
                  \o rest
           ELSE rest

normalize_data_format(t) ==
  Join(NormalizeTerms(SplitOn(t, "+")), <<" ", "+", "\n">>)


(***************************************************************************)
(* Numbers.  A real is <<n, k>>, the number n / 10^k, with n not a         *)
(* multiple of 10 unless k = 0: equal reals have equal representations.    *)
(* The texts of the model use neither an exponent nor an underscore and    *)
(* spell neither "inf" nor "nan", which float() and complex() also accept. *)
(***************************************************************************)
\* int(ds) of a run of decimal digits
RECURSIVE IntOf(_)
IntOf(ds) ==
  IF ds = <<>> THEN 0
  ELSE 10 * IntOf(SubSeq(ds, 1, Len(ds) - 1)) + DigitValue(ds[Len(ds)])

RECURSIVE Real(_, _)
Real(n, k) == IF k > 0 /\ n % 10 = 0 THEN Real(n \div 10, k - 1) ELSE <<n, k>>

Zero == <<0, 0>>

\* the longest prefix of t from p that reads as a number:
\* [+-] (digits [. digits*] | . digits+).  [end |-> position, value |-> real];
\* end = p when no prefix does.
NumberPrefix(t, p) ==
  LET signed == p < Len(t) /\ t[p + 1] \in {"+", "-"}
      s      == IF signed THEN p + 1 ELSE p
      i      == RunEnd(t, s, Digits)
      dot    == i < Len(t) /\ t[i + 1] = "."
      f      == IF dot THEN RunEnd(t, i + 1, Digits) ELSE i
      frac   == IF dot THEN Slice(t, i + 1, f) ELSE <<>>
      mag    == IntOf(Slice(t, s, i) \o frac)
      n      == IF signed /\ t[p + 1] = "-" THEN 0 - mag ELSE mag
  IN  IF i = s /\ Len(frac) = 0
      THEN [end |-> p, value |-> Zero]
      ELSE [end |-> f, value |-> Real(n, Len(frac))]

\* float(t): the real, or <<>> for ValueError
ParseFloat(t) ==
  LET u == Strip(t)
      r == NumberPrefix(u, 0)
  IN  IF u # <<>> /\ r.end = Len(u) THEN r.value ELSE <<>>

\* complex(t): <<[re |-> real, im |-> real]>>, or <<>> for ValueError
ParseComplex(t) ==
  LET u  == Strip(t)
      z  == NumberPrefix(u, 0)
      p  == z.end
      isJ(q) == q < Len(u) /\ u[q + 1] \in {"j"}
      isSign(q) == q < Len(u) /\ u[q + 1] \in {"+", "-"}
      unit(q) == IF u[q + 1] = "-" THEN <<0 - 1, 0>> ELSE <<1, 0>>
  IN  IF p > 0
      THEN IF isSign(p)
           THEN LET y  == NumberPrefix(u, p)
                    q  == IF y.end = p THEN p + 1 ELSE y.end
                    im == IF y.end = p THEN unit(p) ELSE y.value
                IN  IF isJ(q) /\ q + 1 = Len(u)
                    THEN <<[re |-> z.value, im |-> im]>>
                    ELSE <<>>
           ELSE IF isJ(p)
           THEN IF p + 1 = Len(u) THEN <<[re |-> Zero, im |-> z.value]>> ELSE <<>>
           ELSE IF p = Len(u) THEN <<[re |-> z.value, im |-> Zero]>> ELSE <<>>
      ELSE IF isSign(0)
           THEN IF isJ(1) /\ Len(u) = 2
                THEN <<[re |-> Zero, im |-> unit(0)]>>
                ELSE <<>>
           ELSE IF isJ(0) /\ Len(u) = 1
                THEN <<[re |-> Zero, im |-> <<1, 0>>]>>
                ELSE <<>>

(***************************************************************************)
(* parse_hamiltonian_to_sparsepauliop                                      *)
(***************************************************************************)
\* re.findall(r'\(([^)]+)\)\s*\[(.*?)\]', data) from position p: the
\* leftmost matches, none overlapping, each <<coeff, ops>>
RECURSIVE FindAllTerms(_, _)
FindAllTerms(t, p) ==
  IF p >= Len(t) THEN <<>>
  ELSE LET close == Find(t, ")", p + 1)
           b     == IF t[p + 1] = "(" /\ close > p + 1
                    THEN Bracket(t, close + 1)
                    ELSE <<>>
       IN  IF b # <<>>
           THEN <<(<<Slice(t, p + 1, close), Slice(t, b[1] + 1, b[2])>>)>>
                  \o FindAllTerms(t, b[2] + 1)
           ELSE FindAllTerms(t, p + 1)

\* MatchOperator with the index pattern (\d): one digit only
MatchOperatorOneDigit(op) ==
  IF Len(op) >= 2 /\ op[1] \in {"X", "Y", "Z"} /\ op[2] \in Digits
  THEN <<op[1], DigitValue(op[2])>>
  ELSE <<>>

\* re.match(r'([XYZ])(\d+)', op): <<letter, index>>, or <<>>
MatchOperator(op) ==
  IF Len(op) >= 2 /\ op[1] \in {"X", "Y", "Z"} /\ op[2] \in Digits
  THEN <<op[1], IntOf(Slice(op, 1, RunEnd(op, 1, Digits)))>>
  ELSE <<>>

\* the inner loop: pauli_dict after the tokens ops_list, a later token for a
\* qubit index replacing an earlier one
RECURSIVE PauliDict(_)
PauliDict(ops_list) ==
  IF ops_list = <<>> THEN <<>>
  ELSE LET n     == Len(ops_list)
           d     == PauliDict(SubSeq(ops_list, 1, n - 1))
           match == MatchOperator(ops_list[n])
       IN  IF match # <<>> THEN (match[2] :> match[1]) @@ d ELSE d

\* ParseTerms with the ValueError swallowed: a coefficient that does not read
\* becomes zero
RECURSIVE ParseTermsCoercingToZero(_)
ParseTermsCoercingToZero(found) ==
  IF found = <<>> THEN [raised |-> FALSE, list |-> <<>>]
  ELSE LET coeff == ParseComplex(Strip(found[1][1]))
           value == IF coeff = <<>> THEN [re |-> Zero, im |-> Zero] ELSE coeff[1]
           rest  == ParseTermsCoercingToZero(Tail(found))
           term  == <<PauliDict(SplitWhitespace(found[1][2])), value>>
       IN  [raised |-> FALSE, list |-> <<term>> \o rest.list]

\* the outer loop over the matches: [raised |-> FALSE, list |-> the terms], or
\* raised |-> TRUE (ValueError, nothing returned) as soon as one coefficient
\* does not read as a complex number
RECURSIVE ParseTerms(_)
ParseTerms(found) ==
  IF found = <<>> THEN [raised |-> FALSE, list |-> <<>>]
  ELSE LET coeff == ParseComplex(Strip(found[1][1]))
           rest  == ParseTerms(Tail(found))
           term  == <<PauliDict(SplitWhitespace(found[1][2])), coeff[1]>>
       IN  IF coeff = <<>> \/ rest.raised
           THEN [raised |-> TRUE, list |-> <<>>]
           ELSE [raised |-> FALSE, list |-> <<term>> \o rest.list]

parse_hamiltonian_to_sparsepauliop(t) == ParseTerms(FindAllTerms(t, 0))

(***************************************************************************)
(* determine_qubit_count                                                   *)
(***************************************************************************)
Max(S) == CHOOSE x \in S : \A y \in S : y <= x

\* the loop: max_qubit after the terms ts, starting from max_qubit
RECURSIVE MaxQubit(_, _)
MaxQubit(ts, max_qubit) ==
  IF ts = <<>> THEN max_qubit
  ELSE LET pauli_dict == ts[1][1]
           next == IF DOMAIN pauli_dict # {} /\ Max(DOMAIN pauli_dict) > max_qubit
                   THEN Max(DOMAIN pauli_dict)
                   ELSE max_qubit
       IN  MaxQubit(Tail(ts), next)

determine_qubit_count(ts) == MaxQubit(ts, 0) + 1

(***************************************************************************)
(* parse_instance_variables: the dict is a function from variable name to  *)
(* value, a later segment for a name replacing an earlier one.             *)
(***************************************************************************)
\* InstanceVariables with the value cut at the next hyphen
RECURSIVE InstanceVariablesCutAtHyphen(_)
InstanceVariablesCutAtHyphen(parts) ==
  IF parts = <<>> THEN <<>>
  ELSE LET n         == Len(parts)
           variables == InstanceVariablesCutAtHyphen(SubSeq(parts, 1, n - 1))
           part      == parts[n]
           index     == Find(part, "-", 0)
           next      == Find(part, "-", index + 1)
           var       == Slice(part, 0, index)
           val       == Slice(part, index + 1, IF next = -1 THEN Len(part) ELSE next)
       IN  IF index # -1 THEN (var :> val) @@ variables ELSE variables

RECURSIVE InstanceVariables(_)
InstanceVariables(parts) ==
  IF parts = <<>> THEN <<>>
  ELSE LET n         == Len(parts)
           variables == InstanceVariables(SubSeq(parts, 1, n - 1))
           part      == parts[n]
           index     == Find(part, "-", 0)
           var       == Slice(part, 0, index)
           val       == Slice(part, index + 1, Len(part))
       IN  IF index # -1 THEN (var :> val) @@ variables ELSE variables

parse_instance_variables(instance_name) ==
  InstanceVariables(SplitOn(instance_name, "_"))

(***************************************************************************)
(* is_numeric and the sort key of extract_variable_ranges                  *)
(***************************************************************************)
is_numeric(value) == ParseFloat(value) # <<>>

RECURSIVE Pow10(_)
Pow10(k) == IF k = 0 THEN 1 ELSE 10 * Pow10(k - 1)

\* a < b for two reals
RealLess(a, b) == a[1] * Pow10(b[2]) < b[1] * Pow10(a[2])

\* a < b for two strings: by code point, a proper prefix first
RECURSIVE StrLess(_, _)
StrLess(a, b) ==
  IF b = <<>> THEN FALSE
  ELSE IF a = <<>> THEN TRUE
  ELSE IF a[1] # b[1] THEN Ord(a[1]) < Ord(b[1])
  ELSE StrLess(Tail(a), Tail(b))

\* key = lambda x: (is_numeric(x), float(x) if is_numeric(x) else x)
SortKey(x) == IF is_numeric(x) THEN <<TRUE, ParseFloat(x)>> ELSE <<FALSE, x>>

\* KeyLess with the first component of the keys negated: numeric values first
KeyLessNumericFirst(a, b) ==
  IF a[1] # b[1] THEN a[1]
  ELSE IF a[1] THEN RealLess(a[2], b[2])
  ELSE StrLess(a[2], b[2])

\* a < b for two keys: tuples compare by their first differing element, and
\* False < True
KeyLess(a, b) ==
  IF a[1] # b[1] THEN b[1]
  ELSE IF a[1] THEN RealLess(a[2], b[2])
  ELSE StrLess(a[2], b[2])

\* the stable sort of <<key, value>> pairs by key: a pair goes before the
\* first pair of the sorted prefix whose key is greater
RECURSIVE SortPairs(_)
SortPairs(pairs) ==
  IF pairs = <<>> THEN <<>>
  ELSE LET n    == Len(pairs)
           done == SortPairs(SubSeq(pairs, 1, n - 1))
           x    == pairs[n]
           at   == Cardinality({i \in 1 .. n - 1 : ~KeyLess(x[1], done[i][1])})
       IN  SubSeq(done, 1, at) \o <<x>> \o SubSeq(done, at + 1, n - 1)

\* sorted(seq, key=...): the key of each element is computed once
Sorted(seq) ==
  LET pairs == SortPairs([i \in 1 .. Len(seq) |-> <<SortKey(seq[i]), seq[i]>>])
  IN  [i \in 1 .. Len(seq) |-> pairs[i][2]]

\* iteration over a set: its elements in the order order lists them
Iterate(S, order) == SelectSeq(order, LAMBDA v : v \in S)

(***************************************************************************)
(* extract_variable_ranges.  files maps a file path to the set of keys of  *)
(* that HDF5 file; order is the order in which a set of values iterates.   *)
(***************************************************************************)
\* VariableValues without the fixed-variable test: every key is kept
VariableValuesUnfiltered(keys, fixed) ==
  LET variables ==
        [item \in keys |-> parse_instance_variables(SplitOn(item, ":")[1])]
      names == UNION {DOMAIN variables[item] : item \in keys}
  IN  [var \in names |->
         {variables[item][var] : item \in {k \in keys : var \in DOMAIN variables[k]}}]

\* the inner loop over file.keys(): variable_values, a function from
\* variable name to the set of its values
VariableValues(keys, fixed) ==
  LET variables ==
        [item \in keys |-> parse_instance_variables(SplitOn(item, ":")[1])]
      passes(item) ==
        \/ fixed = <<>>
        \/ /\ fixed[1] \in DOMAIN variables[item]
           /\ variables[item][fixed[1]] = fixed[2]
      kept  == {item \in keys : passes(item)}
      names == UNION {DOMAIN variables[item] : item \in kept}
  IN  [var \in names |->
         {variables[item][var] : item \in {k \in kept : var \in DOMAIN variables[k]}}]

\* ExtractLoop without the test "if variable_values": an empty dict is stored
RECURSIVE ExtractLoopKeepingEmpty(_, _)
ExtractLoopKeepingEmpty(entries, files) ==
  IF entries = <<>> THEN [raised |-> None, results |-> <<>>]
  ELSE LET n     == Len(entries)
           prev  == ExtractLoopKeepingEmpty(SubSeq(entries, 1, n - 1), files)
           parts == SplitOn(entries[n], ":")
           fixed == IF Len(parts) > 2 THEN SplitOn(parts[3], "=") ELSE <<>>
           variable_values == VariableValues(files[parts[2]], fixed)
       IN  IF prev.raised # None THEN prev
           ELSE IF Len(parts) < 2 THEN [raised |-> "IndexError", results |-> <<>>]
           ELSE IF Len(parts) > 2 /\ Len(fixed) # 2
           THEN [raised |-> "ValueError", results |-> <<>>]
           ELSE IF parts[2] \notin DOMAIN files
           THEN [raised |-> "OSError", results |-> <<>>]
           ELSE [raised |-> None,
                 results |-> (parts[1] :> variable_values) @@ prev.results]

\* the loop over file_input: [raised |-> None and results |-> the dict, or
\* raised |-> the exception that ended the call]
RECURSIVE ExtractLoop(_, _)
ExtractLoop(entries, files) ==
  IF entries = <<>> THEN [raised |-> None, results |-> <<>>]
  ELSE LET n     == Len(entries)
           prev  == ExtractLoop(SubSeq(entries, 1, n - 1), files)
           parts == SplitOn(entries[n], ":")
           fixed == IF Len(parts) > 2 THEN SplitOn(parts[3], "=") ELSE <<>>
           variable_values == VariableValues(files[parts[2]], fixed)
       IN  IF prev.raised # None THEN prev
           ELSE IF Len(parts) < 2 THEN [raised |-> "IndexError", results |-> <<>>]
           ELSE IF Len(parts) > 2 /\ Len(fixed) # 2
           THEN [raised |-> "ValueError", results |-> <<>>]
           ELSE IF parts[2] \notin DOMAIN files
           THEN [raised |-> "OSError", results |-> <<>>]
           ELSE IF DOMAIN variable_values # {}
           THEN [raised |-> None,
                 results |-> (parts[1] :> variable_values) @@ prev.results]
           ELSE prev

\* the printing loop over r, the outcome of the first loop: under printed the
\* sorted values printed for each function name and variable
PrintResults(r, order) ==
  [raised  |-> r.raised,
   results |-> r.results,
   printed |-> [name \in DOMAIN r.results |->
                 [var \in DOMAIN r.results[name] |->
                   Sorted(Iterate(r.results[name][var], order))]]]

extract_variable_ranges(entries, files, order) ==
  PrintResults(ExtractLoop(entries, files), order)

(***************************************************************************)
(* Bounds of the model.                                                    *)
(***************************************************************************)
\* terms of an operator list or of a text
MaxTerms == 2

\* operators (or operator tokens) of a list or text, all terms together
MaxOps == 2

\* Q: qubit indices are drawn from [0, Q)
MaxQubits == 11

\* the indices used: both ends of [0, Q), so that an index list can be
\* sparse and an index can have several digits
QubitSample == {0, 1, MaxQubits - 1}

Letters == {"X", "Y", "Z"}

\* the operator-maps with at most k operators
PauliDicts(k) ==
  UNION {[S -> Letters] : S \in {T \in SUBSET QubitSample : Cardinality(T) <= k}}

\* 2.0, 1.5+0.5j and -0.25j
CoeffValues ==
  { [re |-> <<2, 0>>, im |-> Zero],
    [re |-> <<15, 1>>, im |-> <<5, 1>>],
    [re |-> Zero, im |-> <<0 - 25, 2>>] }

RECURSIVE OpsIn(_)
OpsIn(ts) ==
  IF ts = <<>> THEN 0 ELSE Cardinality(DOMAIN ts[1][1]) + OpsIn(Tail(ts))

(***************************************************************************)
(* A Sparse Operator List is built a term at a time.                       *)
(***************************************************************************)
AddTerm ==
  /\ pc = "build"
  /\ Len(terms) < MaxTerms
  /\ \E d \in PauliDicts(MaxOps - OpsIn(terms)), c \in CoeffValues :
       terms' = Append(terms, <<d, c>>)
  /\ UNCHANGED <<pc, data, file_input, store, set_order, result>>

InitTerms ==
  /\ pc = "build"
  /\ terms = <<>>
  /\ data = None
  /\ file_input = None
  /\ store = None
  /\ set_order = None
  /\ result = None

(***************************************************************************)
(* SpecQubit: determine_qubit_count of an operator list                    *)
(***************************************************************************)
DetermineQubitCount ==
  /\ pc = "build"
  /\ pc' = "counted"
  /\ result' = determine_qubit_count(terms)
  /\ UNCHANGED <<data, terms, file_input, store, set_order>>

NextQubit == AddTerm \/ DetermineQubitCount

SpecQubit == InitTerms /\ [][NextQubit]_vars

\* the qubit indices that occur in the operator-maps of ts
IndicesOf(ts) == UNION {DOMAIN ts[i][1] : i \in 1 .. Len(ts)}

\* C1: determine_qubit_count returns the maximum qubit index of the list
\* plus one, and 0 for a list in which no term has an operator
C1_QubitCount ==
  pc = "counted" =>
    result = IF IndicesOf(terms) = {} THEN 0 ELSE Max(IndicesOf(terms)) + 1

(***************************************************************************)
(* SpecRoundTrip: an operator list rendered in canonical form and parsed   *)
(***************************************************************************)
DigitChar(d) == CHOOSE c \in Digits : DigitValue(c) = d

RECURSIVE RenderInt(_)
RenderInt(n) ==
  IF n < 10 THEN <<DigitChar(n)>>
  ELSE RenderInt(n \div 10) \o <<DigitChar(n % 10)>>

\* k decimal digits of n, zeros in front
RECURSIVE RenderDigits(_, _)
RenderDigits(n, k) ==
  IF k = 0 THEN <<>> ELSE RenderDigits(n \div 10, k - 1) \o <<DigitChar(n % 10)>>

\* a real as Python writes a float: 2.0, 1.5, -0.25
RenderReal(r) ==
  LET mag == IF r[1] < 0 THEN 0 - r[1] ELSE r[1]
  IN  (IF r[1] < 0 THEN <<"-">> ELSE <<>>)
        \o RenderInt(mag \div Pow10(r[2])) \o <<".">>
        \o (IF r[2] = 0 THEN <<"0">> ELSE RenderDigits(mag % Pow10(r[2]), r[2]))

\* a coefficient: the real part alone, the imaginary part alone, or both
RenderComplex(c) ==
  IF c.im = Zero THEN RenderReal(c.re)
  ELSE IF c.re = Zero THEN RenderReal(c.im) \o <<"j">>
  ELSE RenderReal(c.re) \o (IF c.im[1] < 0 THEN <<>> ELSE <<"+">>)
         \o RenderReal(c.im) \o <<"j">>

\* the operators of d as tokens <Letter><Index>, by ascending index
RECURSIVE RenderOps(_)
RenderOps(d) ==
  IF DOMAIN d = {} THEN <<>>
  ELSE LET i    == Max(DOMAIN d)
           rest == [j \in DOMAIN d \ {i} |-> d[j]]
       IN  Append(RenderOps(rest), <<d[i]>> \o RenderInt(i))

\* (coeff) [ops]
RenderTerm(term) ==
  <<"(">> \o RenderComplex(term[2]) \o <<")", " ", "[">>
    \o Join(RenderOps(term[1]), <<" ">>) \o <<"]">>

RenderTerms(ts) ==
  Join([i \in 1 .. Len(ts) |-> RenderTerm(ts[i])], <<" ", "+", "\n">>)

Render ==
  /\ pc = "build"
  /\ pc' = "rendered"
  /\ data' = RenderTerms(terms)
  /\ UNCHANGED <<terms, file_input, store, set_order, result>>

ParseRendered ==
  /\ pc = "rendered"
  /\ pc' = "parsed"
  /\ result' = parse_hamiltonian_to_sparsepauliop(data)
  /\ UNCHANGED <<data, terms, file_input, store, set_order>>

NextRoundTrip == AddTerm \/ Render \/ ParseRendered

SpecRoundTrip == InitTerms /\ [][NextRoundTrip]_vars

\* C6: parsing the canonical rendering of a list of N terms returns the N
\* (operator-map, coefficient) pairs of the list, in order, a term with an
\* empty operator-map included
C6_RoundTrip ==
  pc = "parsed" =>
    /\ ~result.raised
    /\ Len(result.list) = Len(terms)
    /\ \A i \in 1 .. Len(terms) :
         /\ result.list[i][1] = terms[i][1]
         /\ result.list[i][2] = terms[i][2]

\* a parsed two-term list with an identity term and a two-digit index
C6_Witness ==
  /\ pc = "parsed"
  /\ Len(terms) = 2
  /\ \E i \in 1 .. 2 : DOMAIN terms[i][1] = {}
  /\ \E i \in 1 .. 2 : MaxQubits - 1 \in DOMAIN terms[i][1]
  /\ result.list = terms

(***************************************************************************)
(* SpecParse: canonical text written a term at a time, "(coeff) [ops]"     *)
(* joined by " +\n", then parsed.  terms lists the <<coeff, ops>> written. *)
(***************************************************************************)
\* coefficient texts that complex() reads: 1.0, -j, " 2 ", 1.5+0.5j
WellFormedCoeffs ==
  { <<"1", ".", "0">>,
    <<"-", "j">>,
    <<" ", "2", " ">>,
    <<"1", ".", "5", "+", "0", ".", "5", "j">> }

\* coefficient texts on which complex() raises ValueError:
\* abc, "1 +2j", 1+2, (1, " "
MalformedCoeffs ==
  { <<"a", "b", "c">>,
    <<"1", " ", "+", "2", "j">>,
    <<"1", "+", "2">>,
    <<"(", "1">>,
    <<" ">> }

CoeffTexts == WellFormedCoeffs \cup MalformedCoeffs

\* "X0 Z10" and the empty operator list
OpsTexts == { <<"X", "0", " ", "Z", "1", "0">>,
            <<>> }

CanonicalTerm(piece) ==
  <<"(">> \o piece[1] \o <<")", " ", "[">> \o piece[2] \o <<"]">>

CanonicalText(pieces) ==
  Join([i \in 1 .. Len(pieces) |-> CanonicalTerm(pieces[i])], <<" ", "+", "\n">>)

InitText ==
  /\ pc = "build"
  /\ terms = <<>>
  /\ data = <<>>
  /\ file_input = None
  /\ store = None
  /\ set_order = None
  /\ result = None

WriteTerm ==
  /\ pc = "build"
  /\ Len(terms) < MaxTerms
  /\ \E c \in CoeffTexts, o \in OpsTexts :
       /\ terms' = Append(terms, <<c, o>>)
       /\ data' = CanonicalText(terms')
  /\ UNCHANGED <<pc, file_input, store, set_order, result>>

Parse ==
  /\ pc = "build"
  /\ pc' = "parsed"
  /\ result' = parse_hamiltonian_to_sparsepauliop(data)
  /\ UNCHANGED <<data, terms, file_input, store, set_order>>

NextParse == WriteTerm \/ Parse

SpecParse == InitText /\ [][NextParse]_vars

\* C7: when the coefficient text of any matched term does not read as a
\* complex number, the call raises and returns no list, wherever the term is
C7_MalformedCoefficient ==
  (pc = "parsed" /\ \E i \in 1 .. Len(terms) : terms[i][1] \in MalformedCoeffs)
    => (result.raised /\ result.list = <<>>)

\* a raised call whose bad coefficient follows a good term
C7_Witness ==
  /\ pc = "parsed"
  /\ Len(terms) = 2
  /\ terms[1][1] \in WellFormedCoeffs
  /\ terms[2][1] \in MalformedCoeffs
  /\ result.raised

(***************************************************************************)
(* SpecTokens: one canonical term "(1.0) [tokens]" written a token at a    *)
(* time, then parsed.  terms lists the tokens written.                     *)
(***************************************************************************)
\* X0 Y1 Z10 I0 x1 X X0abc X1Y2 0X
TokenPool ==
  { <<"X", "0">>,
    <<"Y", "1">>,
    <<"Z", "1", "0">>,
    <<"I", "0">>,
    <<"x", "1">>,
    <<"X">>,
    <<"X", "0", "a", "b", "c">>,
    <<"X", "1", "Y", "2">>,
    <<"0", "X">> }

WriteToken ==
  /\ pc = "build"
  /\ Len(terms) < MaxOps
  /\ \E op \in TokenPool :
       /\ terms' = Append(terms, op)
       /\ data' = CanonicalTerm(<<<<"1", ".", "0">>, Join(terms', <<" ">>)>>)
  /\ UNCHANGED <<pc, file_input, store, set_order, result>>

InitTokens ==
  /\ pc = "build"
  /\ terms = <<>>
  /\ data = CanonicalTerm(<<<<"1", ".", "0">>, <<>> >>)
  /\ file_input = None
  /\ store = None
  /\ set_order = None
  /\ result = None

NextTokens == WriteToken \/ Parse

SpecTokens == InitTokens /\ [][NextTokens]_vars

\* a token of the exact form <Letter><Index>: a letter of X, Y, Z and then
\* digits only
IsOperatorToken(op) ==
  /\ Len(op) >= 2
  /\ op[1] \in Letters
  /\ \A i \in 2 .. Len(op) : op[i] \in Digits

\* C10: a token adds operator-map[Index] = Letter exactly when it has the
\* form <Letter><Index>; every other token adds no entry
C10_ExactTokens ==
  pc = "parsed" =>
    LET d == result.list[1][1]
        exact == {i \in 1 .. Len(terms) : IsOperatorToken(terms[i])}
        index(i) == IntOf(Tail(terms[i]))
    IN  /\ DOMAIN d = {index(i) : i \in exact}
        /\ \A i \in exact :
             (\A j \in exact : j > i => index(j) # index(i)) => d[index(i)] = terms[i][1]

(***************************************************************************)
(* SpecNorm: a loose blob written a term at a time, "coeff [ops]" joined   *)
(* by " + ", then normalised.  terms lists the loose terms written.        *)
(***************************************************************************)
\* 1.0 2.0 .5 -1 abc (1.0) (1.5+0.5j)
LooseCoeffs ==
  { <<"1", ".", "0">>,
    <<"2", ".", "0">>,
    <<".", "5">>,
    <<"-", "1">>,
    <<"a", "b", "c">>,
    <<"(", "1", ".", "0", ")">>,
    <<"(", "1", ".", "5", "+", "0", ".", "5", "j", ")">> }

\* "X0 Y1", "Z2" and the empty operator list
LooseOps == { <<"X", "0", " ", "Y", "1">>,
            <<"Z", "2">>,
            <<>> }

WriteLooseTerm ==
  /\ pc = "build"
  /\ Len(terms) < MaxTerms
  /\ \E c \in LooseCoeffs, o \in LooseOps :
       /\ terms' = Append(terms, c \o <<" ", "[">> \o o \o <<"]">>)
       /\ data' = Join(terms', <<" ", "+", " ">>)
  /\ UNCHANGED <<pc, file_input, store, set_order, result>>

NormalizeDataFormat ==
  /\ pc = "build"
  /\ pc' = "normalized"
  /\ result' = normalize_data_format(data)
  /\ UNCHANGED <<data, terms, file_input, store, set_order>>

\* the blob unchanged when the detector reports it canonical, else normalised
normalize_if_needed(t) ==
  IF needs_normalization(t) = "No" THEN t ELSE normalize_data_format(t)

\* applied to the blob and then to its own output; result keeps the blob
\* the application started from
NormalizeIfNeeded ==
  /\ pc \in {"build", "once"}
  /\ pc' = IF pc = "build" THEN "once" ELSE "twice"
  /\ data' = normalize_if_needed(data)
  /\ result' = data
  /\ UNCHANGED <<terms, file_input, store, set_order>>

NextNorm == WriteLooseTerm \/ NormalizeDataFormat \/ NormalizeIfNeeded

SpecNorm == InitText /\ [][NextNorm]_vars

\* C4: normalize_if_needed is idempotent: the second application returns
\* what the first returned
C4_Idempotent == pc = "twice" => data = result

\* the terms emitted into a normalised text t: the lines of t, each but the
\* last without its trailing " +"
EmittedTerms(t) ==
  LET lines == SplitOn(t, "\n")
  IN  [i \in 1 .. Len(lines) |->
         IF i < Len(lines) THEN Slice(lines[i], 0, Len(lines[i]) - 2) ELSE lines[i]]

\* C5: the output of normalize_data_format is empty or canonical: terms
\* joined by " +\n", each of the form (coeff) [ops] that the detector accepts
C5_WellFormedOutput ==
  pc = "normalized" =>
    \/ result = <<>>
    \/ /\ result = Join(EmittedTerms(result), <<" ", "+", "\n">>)
       /\ \A i \in 1 .. Len(EmittedTerms(result)) :
            needs_normalization(EmittedTerms(result)[i]) = "No"

(***************************************************************************)
(* SpecNames: an instance name written a segment at a time, the segments   *)
(* joined by "_", then parsed.  terms lists the segments written.          *)
(***************************************************************************)
MaxSegments == 2

\* graph-1D-grid-pbc size-4 a graph-ring size-2 -x h- and the empty segment
SegmentPool ==
  { <<"g", "r", "a", "p", "h", "-", "1", "D", "-", "g", "r", "i", "d", "-", "p", "b", "c">>,
    <<"s", "i", "z", "e", "-", "4">>,
    <<"a">>,
    <<"g", "r", "a", "p", "h", "-", "r", "i", "n", "g">>,
    <<"s", "i", "z", "e", "-", "2">>,
    <<"-", "x">>,
    <<"h", "-">>,
    <<>> }

WriteSegment ==
  /\ pc = "build"
  /\ Len(terms) < MaxSegments
  /\ \E part \in SegmentPool :
       /\ terms' = Append(terms, part)
       /\ data' = Join(terms', <<"_">>)
  /\ UNCHANGED <<pc, file_input, store, set_order, result>>

ParseInstanceVariables ==
  /\ pc = "build"
  /\ pc' = "parsed"
  /\ result' = parse_instance_variables(data)
  /\ UNCHANGED <<data, terms, file_input, store, set_order>>

NextNames == WriteSegment \/ ParseInstanceVariables

SpecNames == InitText /\ [][NextNames]_vars

\* graph-1D-grid-pbc_size-4
GridName == <<"g", "r", "a", "p", "h", "-", "1", "D", "-", "g", "r", "i", "d", "-", "p", "b", "c", "_", "s", "i", "z", "e", "-", "4">>

\* the segments that hold a hyphen, and for such a segment the place of its
\* first hyphen, the text before it and the whole text after it
Hyphened == {i \in 1 .. Len(terms) : \E k \in 1 .. Len(terms[i]) : terms[i][k] = "-"}

FirstHyphen(part) ==
  CHOOSE k \in 1 .. Len(part) :
    part[k] = "-" /\ \A m \in 1 .. k - 1 : part[m] # "-"

NameOf(part) == SubSeq(part, 1, FirstHyphen(part) - 1)

RemainderOf(part) == SubSeq(part, FirstHyphen(part) + 1, Len(part))

\* C8 as stated: "graph-1D-grid-pbc_size-4" gives {"graph": "1D", "size": "4"},
\* the value cut at the next hyphen
C8_ValueCutAtNextHyphen ==
  (pc = "parsed" /\ data = GridName) =>
    result = (<<"g", "r", "a", "p", "h">> :> <<"1", "D">>) @@ (<<"s", "i", "z", "e">> :> <<"4">>)

\* C8 amended: the name of a variable is the text before the first hyphen of
\* its segment and the value is the whole remainder of the segment, the last
\* segment of a name deciding; "graph-1D-grid-pbc_size-4" gives
\* {"graph": "1D-grid-pbc", "size": "4"}
C8_ValueIsRemainder ==
  pc = "parsed" =>
    /\ DOMAIN result = {NameOf(terms[i]) : i \in Hyphened}
    /\ \A i \in Hyphened :
         (\A j \in Hyphened : j > i => NameOf(terms[j]) # NameOf(terms[i]))
           => result[NameOf(terms[i])] = RemainderOf(terms[i])
    /\ data = GridName =>
         result = (<<"g", "r", "a", "p", "h">> :> <<"1", "D", "-", "g", "r", "i", "d", "-", "p", "b", "c">>) @@ (<<"s", "i", "z", "e">> :> <<"4">>)

C8_Witness ==
  /\ pc = "parsed"
  /\ data = GridName
  /\ result[<<"g", "r", "a", "p", "h">>] = <<"1", "D", "-", "g", "r", "i", "d", "-", "p", "b", "c">>

(***************************************************************************)
(* SpecRanges: an HDF5 file "f" that receives keys, a file_input that      *)
(* receives entries, then extract_variable_ranges.  set_order is the order *)
(* in which the sets of values iterate in that call.                       *)
(***************************************************************************)
MaxRecords == 3

MaxEntries == 2

FilePath == <<"f">>

\* a_size-2 a_size-4 a_graph-ring_size-2 a_size-1D a_size-2.0 a a_size-10:z
RecordPool ==
  { <<"a", "_", "s", "i", "z", "e", "-", "2">>,
    <<"a", "_", "s", "i", "z", "e", "-", "4">>,
    <<"a", "_", "g", "r", "a", "p", "h", "-", "r", "i", "n", "g", "_", "s", "i", "z", "e", "-", "2">>,
    <<"a", "_", "s", "i", "z", "e", "-", "1", "D">>,
    <<"a", "_", "s", "i", "z", "e", "-", "2", ".", "0">>,
    <<"a">>,
    <<"a", "_", "s", "i", "z", "e", "-", "1", "0", ":", "z">> }

\* a:f a:f:graph=ring a:f:graph=grid b:f:size=2 and b:g, whose file is missing
EntryPool ==
  { <<"a", ":", "f">>,
    <<"a", ":", "f", ":", "g", "r", "a", "p", "h", "=", "r", "i", "n", "g">>,
    <<"a", ":", "f", ":", "g", "r", "a", "p", "h", "=", "g", "r", "i", "d">>,
    <<"b", ":", "f", ":", "s", "i", "z", "e", "=", "2">>,
    <<"b", ":", "g">> }

InitRanges ==
  /\ pc = "build"
  /\ terms = None
  /\ data = None
  /\ file_input = <<>>
  /\ store = (FilePath :> {})
  /\ set_order = None
  /\ result = None

AddRecord ==
  /\ pc = "build"
  /\ Cardinality(store[FilePath]) < MaxRecords
  /\ \E item \in RecordPool \ store[FilePath] :
       store' = (FilePath :> (store[FilePath] \cup {item}))
  /\ UNCHANGED <<pc, data, terms, file_input, set_order, result>>

AddEntry ==
  /\ pc = "build"
  /\ Len(file_input) < MaxEntries
  /\ \E entry \in EntryPool : file_input' = Append(file_input, entry)
  /\ UNCHANGED <<pc, data, terms, store, set_order, result>>

\* the orders in which the elements of S can be listed
RECURSIVE Orders(_)
Orders(S) ==
  IF S = {} THEN {<<>>}
  ELSE UNION {{<<x>> \o o : o \in Orders(S \ {x})} : x \in S}

\* the values the call collects
CollectedValues(r) ==
  UNION {UNION {r.results[name][var] : var \in DOMAIN r.results[name]} :
           name \in DOMAIN r.results}

ExtractVariableRanges ==
  /\ pc = "build"
  /\ pc' = "done"
  /\ \E r \in {ExtractLoop(file_input, store)} :
       \E order \in Orders(CollectedValues(r)) :
         /\ set_order' = order
         /\ result' = PrintResults(r, order)
  /\ UNCHANGED <<data, terms, file_input, store>>

NextRanges == AddRecord \/ AddEntry \/ ExtractVariableRanges

SpecRanges == InitRanges /\ [][NextRanges]_vars

(***************************************************************************)
(* What the keys and entries of the pools say, written out by hand.        *)
(***************************************************************************)
\* the variables each key of RecordPool encodes
RecordVars ==
     (<<"a", "_", "s", "i", "z", "e", "-", "2">> :> ((<<"s", "i", "z", "e">> :> <<"2">>)))
     @@ (<<"a", "_", "s", "i", "z", "e", "-", "4">> :> ((<<"s", "i", "z", "e">> :> <<"4">>)))
     @@ (<<"a", "_", "g", "r", "a", "p", "h", "-", "r", "i", "n", "g", "_", "s", "i", "z", "e", "-", "2">> :> ((<<"g", "r", "a", "p", "h">> :> <<"r", "i", "n", "g">>) @@ (<<"s", "i", "z", "e">> :> <<"2">>)))
     @@ (<<"a", "_", "s", "i", "z", "e", "-", "1", "D">> :> ((<<"s", "i", "z", "e">> :> <<"1", "D">>)))
     @@ (<<"a", "_", "s", "i", "z", "e", "-", "2", ".", "0">> :> ((<<"s", "i", "z", "e">> :> <<"2", ".", "0">>)))
     @@ (<<"a">> :> <<>>)
     @@ (<<"a", "_", "s", "i", "z", "e", "-", "1", "0", ":", "z">> :> ((<<"s", "i", "z", "e">> :> <<"1", "0">>)))

\* the dataset name of each entry of EntryPool
EntryName ==
     (<<"a", ":", "f">> :> <<"a">>)
     @@ (<<"a", ":", "f", ":", "g", "r", "a", "p", "h", "=", "r", "i", "n", "g">> :> <<"a">>)
     @@ (<<"a", ":", "f", ":", "g", "r", "a", "p", "h", "=", "g", "r", "i", "d">> :> <<"a">>)
     @@ (<<"b", ":", "f", ":", "s", "i", "z", "e", "=", "2">> :> <<"b">>)
     @@ (<<"b", ":", "g">> :> <<"b">>)

\* the fixed <<variable, value>> of each entry of EntryPool, <<>> when none
EntryFilter ==
     (<<"a", ":", "f">> :> <<>>)
     @@ (<<"a", ":", "f", ":", "g", "r", "a", "p", "h", "=", "r", "i", "n", "g">> :> <<<<"g", "r", "a", "p", "h">>, <<"r", "i", "n", "g">>>>)
     @@ (<<"a", ":", "f", ":", "g", "r", "a", "p", "h", "=", "g", "r", "i", "d">> :> <<<<"g", "r", "a", "p", "h">>, <<"g", "r", "i", "d">>>>)
     @@ (<<"b", ":", "f", ":", "s", "i", "z", "e", "=", "2">> :> <<<<"s", "i", "z", "e">>, <<"2">>>>)
     @@ (<<"b", ":", "g">> :> <<>>)

\* b:g, the entry whose file does not exist
MissingFileEntry == <<"b", ":", "g">>

\* the number of each value of RecordPool that float() accepts; 1D and ring
\* are the values it rejects
NumberOf ==
     (<<"2">> :> 2)
     @@ (<<"4">> :> 4)
     @@ (<<"2", ".", "0">> :> 2)
     @@ (<<"1", "0">> :> 10)

Numeric(x) == x \in DOMAIN NumberOf

\* key item meets the fixed-variable constraint of entry
Passes(item, entry) ==
  \/ EntryFilter[entry] = <<>>
  \/ /\ EntryFilter[entry][1] \in DOMAIN RecordVars[item]
     /\ RecordVars[item][EntryFilter[entry][1]] = EntryFilter[entry][2]

\* entry yields no variable: no key of the file meets its constraint and
\* encodes a variable
ZeroYield(entry) ==
  \A item \in store[FilePath] : Passes(item, entry) => DOMAIN RecordVars[item] = {}

Returned == pc = "done" /\ result.raised = None

\* the (name, variable) pairs of the report
Reported ==
  UNION {{<<name, var>> : var \in DOMAIN result.results[name]} :
           name \in DOMAIN result.results}

\* printed lists the values of the set, each once
ListsTheSet(nv) ==
  LET seq == result.printed[nv[1]][nv[2]]
      S   == result.results[nv[1]][nv[2]]
  IN  /\ Len(seq) = Cardinality(S)
      /\ {seq[i] : i \in 1 .. Len(seq)} = S

\* x may stand before y when numeric values come first
NumericFirst(x, y) ==
  IF Numeric(x) THEN ~Numeric(y) \/ NumberOf[x] <= NumberOf[y]
  ELSE ~Numeric(y) /\ StrLess(x, y)

\* x may stand before y when numeric values come last
NumericLast(x, y) ==
  IF Numeric(x) THEN Numeric(y) /\ NumberOf[x] <= NumberOf[y]
  ELSE Numeric(y) \/ StrLess(x, y)

InOrderNumericFirst(seq) ==
  \A i, j \in 1 .. Len(seq) : i < j => NumericFirst(seq[i], seq[j])

InOrderNumericLast(seq) ==
  \A i, j \in 1 .. Len(seq) : i < j => NumericLast(seq[i], seq[j])

\* {"4", "1D", "2"}
MixedValues == { <<"4">>,
               <<"1", "D">>,
               <<"2">> }

RingExample ==
  /\ pc = "done"
  /\ store[FilePath] = { <<"a", "_", "s", "i", "z", "e", "-", "2">>,
                       <<"a", "_", "s", "i", "z", "e", "-", "4">>,
                       <<"a", "_", "g", "r", "a", "p", "h", "-", "r", "i", "n", "g", "_", "s", "i", "z", "e", "-", "2">> }
  /\ file_input = <<<<"a", ":", "f", ":", "g", "r", "a", "p", "h", "=", "r", "i", "n", "g">>>>

\* every value reported for a dataset name comes from a key that meets the
\* constraint of an entry of that name
FromPassingKeys ==
  \A nv \in Reported : \A x \in result.results[nv[1]][nv[2]] :
    \E i \in 1 .. Len(file_input) : \E item \in store[FilePath] :
      /\ EntryName[file_input[i]] = nv[1]
      /\ Passes(item, file_input[i])
      /\ nv[2] \in DOMAIN RecordVars[item]
      /\ RecordVars[item][nv[2]] = x

\* C3 as stated: a key that does not meet the fixed-variable constraint
\* contributes nothing, and the example reports exactly {"size": ["2"]}
C3_OnlySize ==
  /\ Returned => FromPassingKeys
  /\ RingExample => result.printed = (<<"a">> :> (<<"s", "i", "z", "e">> :> <<<<"2">>>>))

\* C3 amended: a key that does not meet the fixed-variable constraint
\* contributes nothing, and a key that meets it contributes all its
\* variables, the fixed one too: the example reports
\* {"graph": ["ring"], "size": ["2"]}
C3_FixedVariableReported ==
  /\ Returned => FromPassingKeys
  /\ RingExample =>
       result.printed = (<<"a">> :> ((<<"g", "r", "a", "p", "h">> :> <<<<"r", "i", "n", "g">>>>) @@ (<<"s", "i", "z", "e">> :> <<<<"2">>>>)))

C3_Witness ==
  /\ RingExample
  /\ result.raised = None
  /\ result.results[<<"a">>][<<"s", "i", "z", "e">>] = {<<"2">>}

\* the entries that yield no variable in a call that opens existing files only
Exists(i) == file_input[i] # MissingFileEntry

ZeroYielding ==
  {i \in 1 .. Len(file_input) : ZeroYield(file_input[i])}

\* C9 as stated: an entry that yields no variable raises nothing and leaves
\* under its dataset name a report entry with an empty variable map
C9_EmptyEntry ==
  (pc = "done" /\ \A i \in 1 .. Len(file_input) : Exists(i)) =>
    /\ result.raised = None
    /\ \A i \in ZeroYielding :
         /\ EntryName[file_input[i]] \in DOMAIN result.results
         /\ DOMAIN result.results[EntryName[file_input[i]]] = {}

\* C9 amended: an entry that yields no variable raises nothing and adds no
\* report entry: no report entry has an empty variable map, and the dataset
\* name is reported only when another entry of that name yields a variable
C9_NoEntry ==
  (pc = "done" /\ \A i \in 1 .. Len(file_input) : Exists(i)) =>
    /\ result.raised = None
    /\ \A name \in DOMAIN result.results : DOMAIN result.results[name] # {}
    /\ \A i \in ZeroYielding :
         EntryName[file_input[i]] \in DOMAIN result.results
           => \E j \in 1 .. Len(file_input) :
                /\ EntryName[file_input[j]] = EntryName[file_input[i]]
                /\ j \notin ZeroYielding

\* a call with keys in the file, every one rejected by the constraint
C9_Witness ==
  /\ Returned
  /\ store[FilePath] # {}
  /\ file_input = <<<<"a", ":", "f", ":", "g", "r", "a", "p", "h", "=", "g", "r", "i", "d">>>>
  /\ result.results = <<>>

=============================================================================
